---- MODULE Spec2Model ----
(***************************************************************************)
(* A model of the snowplow-rust-tracker emitter (src/src/emitter.rs):      *)
(* the envelope / schema model, the event batch container, and the         *)
(* send / await / drain protocol of Emitter::track_events.                 *)
(*                                                                         *)
(* Two specifications are given.  Spec is the emitter used concurrently by *)
(* the calls of Calls, with the HTTP transport as the environment.         *)
(* SpecEnvelope is the life of one envelope: wrapped, possibly wrapped     *)
(* again, its payload possibly mutated, then serialized.                   *)
(***************************************************************************)
EXTENDS Integers, Sequences, FiniteSets, TLC

\* ------------------------------------------------------------------ bounds

\* The longest batch handed to track_events.
MaxBatch == 2
\* The most body chunks a response streams before it ends or fails.
MaxChunks == 1
\* The largest version component of a payload's schema identity.
MaxVer == 1
\* The most times a payload is wrapped (2 is a self-describing nested document).
MaxDepth == 2

\* The concurrent calls made on the one shared emitter.
Calls == {"c1", "c2"}

\* ------------------------------------------------- JSON values (serde output)

Str(s) == [t |-> "str", v |-> s]
Obj(pairs) == [t |-> "obj", v |-> pairs]
Arr(items) == [t |-> "arr", v |-> items]

RECURSIVE JsonText(_)
RECURSIVE JoinPairs(_)
RECURSIVE JoinItems(_)

\* serde_json's compact text of a value.  No string of the model holds a
\* character that JSON escapes.
JsonText(j) ==
    CASE j.t = "str" -> "\"" \o j.v \o "\""
      [] j.t = "obj" -> "{" \o JoinPairs(j.v) \o "}"
      [] j.t = "arr" -> "[" \o JoinItems(j.v) \o "]"

JoinPairs(ps) ==
    IF ps = <<>> THEN ""
    ELSE "\"" \o ps[1][1] \o "\":" \o JsonText(ps[1][2])
         \o (IF Len(ps) = 1 THEN "" ELSE "," \o JoinPairs(Tail(ps)))

JoinItems(xs) ==
    IF xs = <<>> THEN ""
    ELSE JsonText(xs[1]) \o (IF Len(xs) = 1 THEN "" ELSE "," \o JoinItems(Tail(xs)))

\* ------------------------------------------------------- schema identities

SchemaVersion_new(major, minor, patch) ==
    [major |-> major, minor |-> minor, patch |-> patch]

Schema_new(vendor, name, version) ==
    [vendor |-> vendor, name |-> name, version |-> version]

Schema_new_snowplow(name, version) ==
    Schema_new("com.snowplowanalytics.snowplow", name, version)

\* The canonical URI of a schema identity.
Render(s) ==
    "iglu:" \o s.vendor \o "/" \o s.name \o "/jsonschema/"
    \o ToString(s.version.major) \o "-" \o ToString(s.version.minor)
    \o "-" \o ToString(s.version.patch)

\* -------------------------------------------------------- taggable values
\* A value is a leaf payload (a user type holding its identity and fields),
\* an envelope around a value, or a vector of event records.

Leaf(id, fields) == [kind |-> "leaf", id |-> id, fields |-> fields]

\* tests::WebPage and its HasSchema implementation.
WebPageSchema ==
    Schema_new("com.snowplowanalytics.snowplow", "screen_view", SchemaVersion_new(1, 0, 0))

WebPage(name, id) ==
    Leaf(WebPageSchema, << <<"name", Str(name)>>, <<"id", Str(id)>> >>)

\* impl HasSchema for Vec<SnowplowEvent>: mutated, the container reports the
\* identity of an earlier version of the payload_data schema.
VecSchemaStale(v) ==
    Schema_new_snowplow("payload_data", SchemaVersion_new(1, 0, 3))

VecSchema(v) ==
    Schema_new_snowplow("payload_data", SchemaVersion_new(1, 0, 4))

\* impl HasSchema for Envelope<T>: a wrapped value is an unstruct_event.
EnvelopeSchema(e) ==
    Schema_new_snowplow("unstruct_event", SchemaVersion_new(1, 0, 0))

\* HasSchema::schema, dispatched on the value's type.
HasSchema_schema(x) ==
    CASE x.kind = "leaf" -> x.id
      [] x.kind = "env" -> EnvelopeSchema(x)
      [] x.kind = "vec" -> VecSchema(x.items)

\* Envelope(data), mutated: the tuple struct given a second field holding
\* the identity the payload reports when it is wrapped.
EnvelopeSnapshot(data) ==
    [kind |-> "env", data |-> data, schema |-> Render(HasSchema_schema(data))]

\* Envelope(data): a tuple struct of one field, the data.
Envelope(data) == [kind |-> "env", data |-> data]

PayloadWrapper_new(payload) == Envelope(Envelope(payload))

\* ---------------------------------------------------------- event records

\* A SnowplowEvent as the tracker hands it over: the payload is a
\* JsonString(PayloadWrapper), the timestamps are epoch milliseconds.
SnowplowEvent(event_type, payload, platform, event_id, ts) ==
    [kind |-> "event", event_type |-> event_type, payload |-> payload,
     platform |-> platform, app_id |-> "test id", tracker_id |-> "test tracker ID",
     namespace |-> "test namespace", event_id |-> event_id,
     created_timestamp |-> ts, sent_timestamp |-> ts]

LinkClick ==
    Leaf(Schema_new("com.acme", "link_click", SchemaVersion_new(1, 0, 1)),
         << <<"targetUrl", Str("http://a-target-url.com")>> >>)

\* The event records the callers track; they differ in payload type, in
\* payload schema identity and in event id.
EventRecords ==
    { SnowplowEvent("ue", PayloadWrapper_new(WebPage("test", "test id")), "pc",
                    "a1a2a3a4-b1b2-c1c2-d1d2-d3d4d5d6d7d8", "1667433600000"),
      SnowplowEvent("ue", PayloadWrapper_new(LinkClick), "pc",
                    "b1b2b3b4-c1c2-d1d2-e1e2-e3e4e5e6e7e8", "1667433600001") }

\* ---------------------------------------------------------- serialization

RECURSIVE Serialize(_)
RECURSIVE SerializeAll(_)

\* impl Serialize for Envelope<T>, mutated: data is written before schema.
SerializeEnvelopeDataFirst(e) ==
    Obj(<< <<"data", Serialize(e.data)>>,
           <<"schema", Str(Render(HasSchema_schema(e.data)))>> >>)

\* impl Serialize for Envelope<T>: a struct of two fields, schema then data;
\* the schema is asked of the data as it is when the envelope is serialized.
SerializeEnvelope(e) ==
    Obj(<< <<"schema", Str(Render(HasSchema_schema(e.data)))>>,
           <<"data", Serialize(e.data)>> >>)

\* impl Serialize for SnowplowEvent: the nine wire keys; the payload is
\* embedded as a JSON string (JsonString).
SerializeEvent(ev) ==
    Obj(<< <<"e", Str(ev.event_type)>>,
           <<"ue_pr", Str(JsonText(Serialize(ev.payload)))>>,
           <<"p", Str(ev.platform)>>,
           <<"aid", Str(ev.app_id)>>,
           <<"tv", Str(ev.tracker_id)>>,
           <<"tna", Str(ev.namespace)>>,
           <<"eid", Str(ev.event_id)>>,
           <<"dtm", Str(ev.created_timestamp)>>,
           <<"stm", Str(ev.sent_timestamp)>> >>)

Serialize(x) ==
    CASE x.kind = "leaf" -> Obj(x.fields)
      [] x.kind = "env" -> SerializeEnvelope(x)
      [] x.kind = "vec" -> Arr(SerializeAll(x.items))
      [] x.kind = "event" -> SerializeEvent(x)

SerializeAll(xs) ==
    IF xs = <<>> THEN <<>> ELSE <<Serialize(xs[1])>> \o SerializeAll(Tail(xs))

\* -------------------------------------------------- event batch container

RECURSIVE Collect(_)
RECURSIVE CollectReversed(_)

\* Iterator::collect into a Vec, mutated: each item is pushed at the front.
CollectReversed(iter) ==
    IF iter = <<>> THEN <<>> ELSE CollectReversed(Tail(iter)) \o <<Head(iter)>>

\* Iterator::collect into a Vec: next() until the iterator ends, each item
\* pushed at the back.
Collect(iter) ==
    IF iter = <<>> THEN <<>> ELSE <<Head(iter)>> \o Collect(Tail(iter))

\* EventContainer::new, mutated: the events are collected back to front.
EventContainer_new_reversed(events) ==
    Envelope([kind |-> "vec", items |-> CollectReversed(events)])

\* EventContainer::new
EventContainer_new(events) ==
    Envelope([kind |-> "vec", items |-> Collect(events)])

\* ------------------------------------------------------------------ state

VARIABLES
    emitter,      \* the Emitter: [collector_url, client]
    constructed,  \* the arguments Emitter::new was given
    pc,           \* where each call is: idle, sending, draining, done
    api,          \* the operation each call entered by
    input,        \* the events each caller passed
    requests,     \* the requests handed to the transport for each call, in order
    collector,    \* the requests the collector has received, in order of arrival
    status,       \* the HTTP status of each call's response (0: no response)
    chunks,       \* the body chunks each call has read and discarded
    outcome,      \* what the transport did to each call's request
    result,       \* what each call returned
    epc,          \* where the envelope is: new, wrapped, serialized
    env,          \* the envelope
    wrapIds,      \* history: the identity each wrapped value had when it was wrapped
    mutated,      \* whether the payload changed after it was wrapped
    wire          \* the serialized envelope

emitterVars ==
    <<emitter, constructed, pc, api, input, requests, collector, status, chunks,
      outcome, result>>
envelopeVars == <<epc, env, wrapIds, mutated, wire>>
vars == <<emitterVars, envelopeVars>>

NoValue == [kind |-> "none"]
NoWire == [t |-> "none"]

CollectorUrl == "https://collector.example/com.snowplowanalytics.snowplow/tp2"
StatusCodes == {200, 404, 500}

Ok == "Ok(())"
ErrTransport == "Err(reqwest::Error)"
Pending == "pending"

\* The finite sequences of event records of at most n records.
RECURSIVE SeqsUpTo(_)
SeqsUpTo(n) ==
    IF n = 0 THEN {<<>>}
    ELSE LET shorter == SeqsUpTo(n - 1)
         IN shorter \cup {Append(b, e) : b \in {x \in shorter : Len(x) = n - 1},
                                          e \in EventRecords}

Batches == SeqsUpTo(MaxBatch)

\* Emitter::new
Emitter_new(collector_url, client) ==
    [collector_url |-> collector_url, client |-> client]

EmitterInit ==
    /\ emitter = Emitter_new(CollectorUrl, "client")
    /\ constructed = [collector_url |-> CollectorUrl, client |-> "client"]
    /\ pc = [c \in Calls |-> "idle"]
    /\ api = [c \in Calls |-> "none"]
    /\ input = [c \in Calls |-> <<>>]
    /\ requests = [c \in Calls |-> <<>>]
    /\ collector = <<>>
    /\ status = [c \in Calls |-> 0]
    /\ chunks = [c \in Calls |-> 0]
    /\ outcome = [c \in Calls |-> "none"]
    /\ result = [c \in Calls |-> Pending]

EnvelopeInit ==
    /\ epc = "new"
    /\ env = NoValue
    /\ wrapIds = <<>>
    /\ mutated = FALSE
    /\ wire = NoWire

Init == EmitterInit /\ EnvelopeInit

\* ---------------------------------------------------------------- emitter

RequestsOf(c) == requests[c]
Delivered(c) == \E i \in 1..Len(collector) : collector[i].call = c
InFlight(c) == pc[c] \in {"sending", "draining"}

RECURSIVE EventsInFlight(_)
\* The events of the calls of S that are in flight.
EventsInFlight(S) ==
    IF S = {} THEN <<>>
    ELSE LET d == CHOOSE x \in S : TRUE
         IN (IF InFlight(d) THEN input[d] ELSE <<>>) \o EventsInFlight(S \ {d})

\* The batch of a call, mutated: the emitter keeps the events of the calls
\* in flight in a buffer of its own, and a call sends the buffer.
CallBatchShared(c, events) == EventsInFlight(Calls \ {c}) \o events

\* The batch of a call: the events it was passed, and nothing else.
CallBatch(c, events) == events

\* track_events up to its first suspension: the container is built and
\* serialized, and the POST is handed to the transport.
Post(c, events) ==
    /\ pc[c] = "idle"
    /\ LET container == EventContainer_new(CallBatch(c, events))
           req == [call |-> c, method |-> "POST", url |-> emitter.collector_url,
                   content_type |-> "application/json", body |-> Serialize(container)]
       IN requests' = [requests EXCEPT ![c] = Append(@, req)]
    /\ pc' = [pc EXCEPT ![c] = "sending"]
    /\ UNCHANGED <<emitter, constructed, collector, status, chunks, outcome, result>>

TrackEvents(c) ==
    \E events \in Batches :
        /\ Post(c, events)
        /\ input' = [input EXCEPT ![c] = events]
        /\ api' = [api EXCEPT ![c] = "track_events"]
        /\ UNCHANGED envelopeVars

\* The one-element array of track_event, mutated: the array is left empty.
SingleBatchEmpty(event) == <<>>

\* [event]
SingleBatch(event) == <<event>>

TrackEvent(c) ==
    \E event \in EventRecords :
        /\ Post(c, SingleBatch(event))
        /\ input' = [input EXCEPT ![c] = <<event>>]
        /\ api' = [api EXCEPT ![c] = "track_event"]
        /\ UNCHANGED envelopeVars

\* The transport carries the request of a sending call to the collector.
Deliver(c) ==
    /\ pc[c] = "sending"
    /\ ~Delivered(c)
    /\ LET mine == RequestsOf(c)
       IN collector' = Append(collector, mine[Len(mine)])
    /\ UNCHANGED <<emitter, constructed, pc, api, input, requests, status, chunks,
                   outcome, result>>
    /\ UNCHANGED envelopeVars

\* send().await?, mutated: a failed send is tried again.
SendFailsRetry(c) ==
    /\ pc[c] = "sending"
    /\ LET mine == RequestsOf(c)
       IN requests' = [requests EXCEPT ![c] = Append(@, mine[Len(mine)])]
    /\ UNCHANGED <<emitter, constructed, pc, api, input, collector, status, chunks,
                   outcome, result>>
    /\ UNCHANGED envelopeVars

\* send().await? fails (connection refused, TLS failure, or a timeout or a
\* reset after the request reached the collector): the error is returned.
SendFails(c) ==
    /\ pc[c] = "sending"
    /\ outcome' = [outcome EXCEPT ![c] = "send_err"]
    /\ result' = [result EXCEPT ![c] = ErrTransport]
    /\ pc' = [pc EXCEPT ![c] = "done"]
    /\ UNCHANGED <<emitter, constructed, api, input, requests, collector, status, chunks>>
    /\ UNCHANGED envelopeVars

\* send().await? yields the response of a collector that has received the
\* request; the drain of its body stream starts.
SendCompletes(c) ==
    /\ pc[c] = "sending"
    /\ Delivered(c)
    /\ \E st \in StatusCodes : status' = [status EXCEPT ![c] = st]
    /\ pc' = [pc EXCEPT ![c] = "draining"]
    /\ UNCHANGED <<emitter, constructed, api, input, requests, collector, chunks,
                   outcome, result>>
    /\ UNCHANGED envelopeVars

\* The stream yields a chunk: the closure discards it and the drain goes on.
DrainChunk(c) ==
    /\ pc[c] = "draining"
    /\ chunks[c] < MaxChunks
    /\ chunks' = [chunks EXCEPT ![c] = @ + 1]
    /\ UNCHANGED <<emitter, constructed, pc, api, input, requests, collector, status,
                   outcome, result>>
    /\ UNCHANGED envelopeVars

\* try_for_each, mutated: an error of the stream is discarded like a chunk.
DrainFailsSwallowed(c) ==
    /\ pc[c] = "draining"
    /\ outcome' = [outcome EXCEPT ![c] = "drain_err"]
    /\ result' = [result EXCEPT ![c] = Ok]
    /\ pc' = [pc EXCEPT ![c] = "done"]
    /\ UNCHANGED <<emitter, constructed, api, input, requests, collector, status, chunks>>
    /\ UNCHANGED envelopeVars

\* try_for_each, mutated: an error of the stream is returned as an error of
\* another kind than a send failure.
DrainFailsOtherKind(c) ==
    /\ pc[c] = "draining"
    /\ outcome' = [outcome EXCEPT ![c] = "drain_err"]
    /\ result' = [result EXCEPT ![c] = "Err(DrainError)"]
    /\ pc' = [pc EXCEPT ![c] = "done"]
    /\ UNCHANGED <<emitter, constructed, api, input, requests, collector, status, chunks>>
    /\ UNCHANGED envelopeVars

\* The stream yields an error: try_for_each stops and returns it.
DrainFails(c) ==
    /\ pc[c] = "draining"
    /\ outcome' = [outcome EXCEPT ![c] = "drain_err"]
    /\ result' = [result EXCEPT ![c] = ErrTransport]
    /\ pc' = [pc EXCEPT ![c] = "done"]
    /\ UNCHANGED <<emitter, constructed, api, input, requests, collector, status, chunks>>
    /\ UNCHANGED envelopeVars

\* The end of the stream, mutated: a status of 400 or more is an error
\* (error_for_status).
DrainEndsStatusChecked(c) ==
    /\ pc[c] = "draining"
    /\ outcome' = [outcome EXCEPT ![c] = "drained"]
    /\ result' = [result EXCEPT ![c] = IF status[c] >= 400 THEN ErrTransport ELSE Ok]
    /\ pc' = [pc EXCEPT ![c] = "done"]
    /\ UNCHANGED <<emitter, constructed, api, input, requests, collector, status, chunks>>
    /\ UNCHANGED envelopeVars

\* The stream ends: try_for_each returns Ok(()), whatever the status was.
DrainEnds(c) ==
    /\ pc[c] = "draining"
    /\ outcome' = [outcome EXCEPT ![c] = "drained"]
    /\ result' = [result EXCEPT ![c] = Ok]
    /\ pc' = [pc EXCEPT ![c] = "done"]
    /\ UNCHANGED <<emitter, constructed, api, input, requests, collector, status, chunks>>
    /\ UNCHANGED envelopeVars

Next ==
    \E c \in Calls :
        \/ TrackEvents(c)
        \/ TrackEvent(c)
        \/ Deliver(c)
        \/ SendFails(c)
        \/ SendCompletes(c)
        \/ DrainChunk(c)
        \/ DrainFails(c)
        \/ DrainEnds(c)

Spec == Init /\ [][Next]_vars

\* --------------------------------------------------------------- envelope

Vendors == {"com.snowplowanalytics.snowplow", "com.acme"}
SchemaNames == {"screen_view", "link_click"}
Versions == 0..MaxVer

Identities ==
    {Schema_new(v, n, SchemaVersion_new(a, b, c)) :
        v \in Vendors, n \in SchemaNames, a \in Versions, b \in Versions, c \in Versions}

FieldLists ==
    { << <<"name", Str("test")>>, <<"id", Str("test id")>> >>,
      << <<"targetUrl", Str("http://a-target-url.com")>> >> }

\* The payloads wrapped: user types that report the identity they hold.
Payloads == {Leaf(id, f) : id \in Identities, f \in FieldLists}

RECURSIVE Depth(_)
Depth(x) == IF x.kind = "env" THEN 1 + Depth(x.data) ELSE 0

RECURSIVE Innermost(_)
Innermost(x) == IF x.kind = "env" THEN Innermost(x.data) ELSE x

RECURSIVE WithIdentity(_, _)
\* x with the identity held by its innermost payload set to id.
WithIdentity(x, id) ==
    IF x.kind = "env" THEN [x EXCEPT !.data = WithIdentity(x.data, id)]
    ELSE [x EXCEPT !.id = id]

\* wrap(payload): the envelope is built around the payload.  wrapIds only
\* records, for the properties, the identity the payload has at this moment.
Wrap ==
    /\ epc = "new"
    /\ \E p \in Payloads :
         /\ env' = Envelope(p)
         /\ wrapIds' = <<HasSchema_schema(p)>>
    /\ epc' = "wrapped"
    /\ UNCHANGED <<mutated, wire>>
    /\ UNCHANGED emitterVars

\* wrap(envelope): the payload is itself an envelope.
WrapAgain ==
    /\ epc = "wrapped"
    /\ Depth(env) < MaxDepth
    /\ env' = Envelope(env)
    /\ wrapIds' = Append(wrapIds, HasSchema_schema(env))
    /\ UNCHANGED <<epc, mutated, wire>>
    /\ UNCHANGED emitterVars

\* The owner of the envelope changes the payload it holds (the field of
\* the tuple struct is reachable, and a payload may have interior
\* mutability): the payload reports another identity from now on.
Mutate ==
    /\ epc = "wrapped"
    /\ ~mutated
    /\ \E id \in Identities :
         /\ id # Innermost(env).id
         /\ env' = WithIdentity(env, id)
    /\ mutated' = TRUE
    /\ UNCHANGED <<epc, wrapIds, wire>>
    /\ UNCHANGED emitterVars

\* The envelope is serialized.
SerializeEnv ==
    /\ epc = "wrapped"
    /\ wire' = Serialize(env)
    /\ epc' = "serialized"
    /\ UNCHANGED <<env, wrapIds, mutated>>
    /\ UNCHANGED emitterVars

NextEnvelope == Wrap \/ WrapAgain \/ Mutate \/ SerializeEnv

SpecEnvelope == Init /\ [][NextEnvelope]_vars

\* ------------------------------------------------------------ properties

\* The body of the one request of a call that is under way.
BodyOf(c) == RequestsOf(c)[1].body

PayloadDataUri == "iglu:com.snowplowanalytics.snowplow/payload_data/jsonschema/1-0-4"

\* The serializations of the events of each batch, in the order of the batch.
EventsWire == [b \in Batches |-> SerializeAll(b)]

\* The wire body of a batch, written out: schema first, then the events.
WireBody(events) ==
    Obj(<< <<"schema", Str(PayloadDataUri)>>, <<"data", Arr(EventsWire[events])>> >>)

\* C1: a call that has not started has issued no request; a call under way
\* or returned (in success, in a send failure or in a drain failure) has
\* issued exactly one, a POST of JSON to the emitter's destination URL; no
\* call ever has more than one.
C1_ExactlyOneRequest ==
    /\ \A c \in Calls :
         /\ Len(RequestsOf(c)) <= 1
         /\ pc[c] = "idle" => Len(RequestsOf(c)) = 0
         /\ pc[c] # "idle" => Len(RequestsOf(c)) = 1
    /\ \A c \in Calls : \A i \in 1..Len(requests[c]) :
         /\ requests[c][i].call = c
         /\ requests[c][i].method = "POST"
         /\ requests[c][i].url = constructed.collector_url
         /\ requests[c][i].content_type = "application/json"

C1_Witness ==
    \E c, d \in Calls :
        /\ pc[c] = "done" /\ outcome[c] = "send_err"
        /\ pc[d] = "done" /\ outcome[d] = "drain_err"
        /\ Len(requests[c]) = 1 /\ Len(requests[d]) = 1

\* C2: a call returns success exactly when a response was obtained and its
\* body stream was read to its end with no error; every other call that
\* returns, returns the transport error; after a failed send the drain never
\* started (no response, no chunk read); a call that has not returned has
\* no result.
C2_SuccessIffDrained ==
    \A c \in Calls :
        /\ pc[c] = "done" =>
             /\ result[c] = Ok <=> (status[c] # 0 /\ outcome[c] = "drained")
             /\ result[c] # Ok => result[c] = ErrTransport
        /\ outcome[c] = "send_err" =>
             /\ pc[c] = "done" /\ result[c] = ErrTransport
             /\ status[c] = 0 /\ chunks[c] = 0
        /\ pc[c] # "done" => result[c] = Pending

C2_Witness ==
    \E c, d \in Calls :
        /\ pc[c] = "done" /\ outcome[c] = "send_err" /\ result[c] = ErrTransport
        /\ pc[d] = "done" /\ outcome[d] = "drained" /\ chunks[d] = MaxChunks
        /\ result[d] = Ok

\* C3: whatever the status of the response and however many chunks its body
\* had, a call whose body stream drained without error returned success;
\* two such calls returned alike.
C3_StatusIgnored ==
    /\ \A c \in Calls : \A st \in StatusCodes :
         (pc[c] = "done" /\ status[c] = st /\ outcome[c] = "drained") => result[c] = Ok
    /\ \A c, d \in Calls :
         (outcome[c] = "drained" /\ outcome[d] = "drained") => result[c] = result[d]

C3_Witness ==
    \E c, d \in Calls :
        /\ outcome[c] = "drained" /\ status[c] = 200 /\ chunks[c] = 0
        /\ outcome[d] = "drained" /\ status[d] = 500 /\ chunks[d] = MaxChunks
        /\ result[c] = Ok /\ result[d] = Ok

\* C4 as claimed: a call that returned failure with its batch received by
\* the collector failed while draining.
C4_ReceivedOnlyThroughDrain ==
    \A c \in Calls :
        (result[c] = ErrTransport /\ Delivered(c)) => outcome[c] = "drain_err"

\* C4, amended: a drain failure returns the same error as a send failure,
\* and the collector has then received the batch; a call that returned
\* failure with its batch received failed while draining or while sending.
C4_DrainFailureAfterDelivery ==
    \A c \in Calls :
        /\ outcome[c] = "drain_err" => (result[c] = ErrTransport /\ Delivered(c))
        /\ outcome[c] = "send_err" => result[c] = ErrTransport
        /\ (pc[c] = "done" /\ result[c] # Ok /\ Delivered(c))
               => outcome[c] \in {"drain_err", "send_err"}

C4_Witness ==
    \E c \in Calls :
        outcome[c] = "drain_err" /\ result[c] = ErrTransport /\ Delivered(c)

\* C5: the container built from the events a caller passed holds exactly
\* those events in their order, and the data of the request body is their
\* serializations in that order; an empty sequence gives an empty data array.
C5_ContainerKeepsOrder ==
    \A c \in Calls : \A i \in 1..Len(requests[c]) :
        LET container == EventContainer_new(input[c])
        IN /\ container.kind = "env"
           /\ container.data.kind = "vec"
           /\ container.data.items = input[c]
           /\ requests[c][i].body.t = "obj"
           /\ requests[c][i].body.v[2] = <<"data", Arr(EventsWire[input[c]])>>
           /\ Len(requests[c][i].body.v[2][2].v) = Len(input[c])

C5_Witness ==
    \E c, d \in Calls :
        /\ pc[c] # "idle" /\ input[c] = <<>> /\ BodyOf(c).v[2] = <<"data", Arr(<<>>)>>
        /\ pc[d] # "idle" /\ Len(input[d]) = MaxBatch /\ input[d][1] # input[d][2]

\* C6: the schema of the body of every request, and of every body the
\* collector received, is the payload_data 1-0-4 URI, and it is the first key.
C6_FixedContainerSchema ==
    /\ \A c \in Calls : \A i \in 1..Len(requests[c]) :
         requests[c][i].body.v[1] = <<"schema", Str(PayloadDataUri)>>
    /\ \A i \in 1..Len(collector) :
         collector[i].body.v[1] = <<"schema", Str(PayloadDataUri)>>

C6_Witness ==
    \E c, d \in Calls :
        /\ api[c] = "track_events" /\ input[c] = <<>> /\ Delivered(c)
        /\ api[d] = "track_event" /\ Delivered(d)
        /\ input[d][1].payload.data.data.id.vendor = "com.acme"

\* C7: a call of track_event(e) issues one request whose body is the array
\* form with the one element e, the body a call of track_events([e]) issues;
\* and two such calls that met the same transport outcome returned alike.
C7_TrackEventIsSingletonBatch ==
    /\ \A c \in Calls :
         api[c] = "track_event" =>
             /\ Len(input[c]) = 1
             /\ Len(RequestsOf(c)) = 1
             /\ BodyOf(c) = WireBody(<<input[c][1]>>)
    /\ \A c, d \in Calls :
         (api[c] = "track_event" /\ api[d] = "track_events" /\ input[d] = input[c]) =>
             /\ BodyOf(c) = BodyOf(d)
             /\ (pc[c] = "done" /\ pc[d] = "done" /\ outcome[c] = outcome[d])
                    => result[c] = result[d]

C7_Witness ==
    \E c, d \in Calls :
        /\ api[c] = "track_event" /\ api[d] = "track_events" /\ input[d] = input[c]
        /\ pc[c] = "done" /\ pc[d] = "done"
        /\ outcome[c] = "drain_err" /\ outcome[d] = "drain_err"

\* The result the code gives for a transport outcome.
ResultOf(o) ==
    CASE o = "drained" -> Ok
      [] o \in {"send_err", "drain_err"} -> ErrTransport
      [] OTHER -> Pending

\* C8: under every interleaving, the one request of each call carries
\* exactly the events of that call in their order, the result of each call
\* is the one its own transport outcome gives, and the emitter is as it was
\* constructed.
C8_CallsIndependent ==
    /\ emitter = constructed
    /\ \A c \in Calls :
         /\ pc[c] # "idle" =>
              RequestsOf(c) = << [call |-> c, method |-> "POST",
                                  url |-> constructed.collector_url,
                                  content_type |-> "application/json",
                                  body |-> WireBody(input[c])] >>
         /\ result[c] = ResultOf(outcome[c])
    /\ \A i \in 1..Len(collector) :
         collector[i].body = WireBody(input[collector[i].call])

C8_Witness ==
    \E c, d \in Calls :
        /\ pc[c] = "draining" /\ pc[d] = "done" /\ outcome[d] = "send_err"
        /\ input[c] # <<>> /\ input[d] # <<>> /\ input[c] # input[d]
        /\ Len(collector) = 2 /\ collector[1].call = d

\* ------------------------------------------------- properties of envelopes

\* tests::test_envelope_serialization: the tokens expected of
\* PayloadWrapper::new(WebPage { name: "test", id: "test id" }).
TestEnvelopeTokens ==
    Obj(<< <<"schema",
             Str("iglu:com.snowplowanalytics.snowplow/unstruct_event/jsonschema/1-0-0")>>,
           <<"data",
             Obj(<< <<"schema",
                      Str("iglu:com.snowplowanalytics.snowplow/screen_view/jsonschema/1-0-0")>>,
                    <<"data",
                      Obj(<< <<"name", Str("test")>>, <<"id", Str("test id")>> >>)>> >>)>> >>)

\* tests::test_emitter_event_construction: the ue_pr string expected.
TestPayloadJson ==
    "{\"schema\":\"iglu:com.snowplowanalytics.snowplow/unstruct_event/jsonschema/1-0-0\","
    \o "\"data\":{\"schema\":\"iglu:com.snowplowanalytics.snowplow/screen_view/jsonschema/1-0-0\","
    \o "\"data\":{\"name\":\"test\",\"id\":\"test id\"}}}"

RECURSIVE EnvelopeShape(_, _)
\* j is an object of exactly the keys schema and data, in that order, with
\* the URI of the identity of the data of x, and the data of x nested.
EnvelopeShape(j, x) ==
    /\ j.t = "obj"
    /\ Len(j.v) = 2
    /\ j.v[1][1] = "schema"
    /\ j.v[2][1] = "data"
    /\ j.v[1][2] = Str(Render(HasSchema_schema(x.data)))
    /\ IF x.data.kind = "env"
       THEN EnvelopeShape(j.v[2][2], x.data)
       ELSE j.v[2][2] = Obj(x.data.fields)

\* C9: a serialized envelope, of a payload or of an envelope, is an object
\* of the two keys schema and data in that order, schema the iglu URI of the
\* identity of what it wraps and data what it wraps, nested; the wrapped
\* WebPage of the tests serializes to the tokens and the text they expect.
C9_EnvelopeSerialization ==
    epc = "serialized" =>
        /\ EnvelopeShape(wire, env)
        /\ env = PayloadWrapper_new(WebPage("test", "test id")) =>
             /\ wire = TestEnvelopeTokens
             /\ JsonText(wire) = TestPayloadJson
        /\ (Depth(env) = 1 /\ Innermost(env).id
                = Schema_new("com.acme", "link_click", SchemaVersion_new(0, 1, 1))) =>
             wire.v[1] = <<"schema", Str("iglu:com.acme/link_click/jsonschema/0-1-1")>>

C9_Witness ==
    /\ epc = "serialized"
    /\ Depth(env) = 2
    /\ Innermost(env).id.vendor = "com.acme"
    /\ wire.v[2][2].t = "obj"
    /\ wire.v[2][2].v[1][1] = "schema"

RECURSIVE SchemaAt(_, _)
\* The schema string k envelopes below the outermost one of j.
SchemaAt(j, k) == IF k = 0 THEN j.v[1][2].v ELSE SchemaAt(j.v[2][2], k - 1)

RECURSIVE HoldsOnlyData(_)
\* Every envelope of x holds its data and nothing else.
HoldsOnlyData(x) ==
    x.kind = "env" => (DOMAIN x = {"kind", "data"} /\ HoldsOnlyData(x.data))

\* C10 as claimed: each schema of a serialized envelope is the identity
\* its payload reported when it was wrapped.
C10_SchemaAsWrapped ==
    epc = "serialized" =>
        \A k \in 0..(Len(wrapIds) - 1) :
            SchemaAt(wire, k) = Render(wrapIds[Len(wrapIds) - k])

\* C10, amended: an envelope holds its payload and no identity; each schema
\* of a serialized envelope is the identity its payload reports when the
\* envelope is serialized, which is the identity reported at wrap time when
\* the payload did not change in between.
C10_SchemaAsSerialized ==
    /\ HoldsOnlyData(env)
    /\ epc = "serialized" =>
         /\ SchemaAt(wire, Depth(env) - 1) = Render(Innermost(env).id)
         /\ \A k \in 0..(Depth(env) - 2) :
                SchemaAt(wire, k) = Render(wrapIds[Len(wrapIds) - k])
         /\ ~mutated => SchemaAt(wire, Depth(env) - 1) = Render(wrapIds[1])

C10_Witness ==
    /\ epc = "serialized"
    /\ mutated
    /\ Depth(env) = 2
    /\ SchemaAt(wire, 1) # Render(wrapIds[1])
    /\ SchemaAt(wire, 1) = Render(Innermost(env).id)

====
